---- MODULE Spec2Model ----
(***************************************************************************)
(* quickpic: the Upload Session (useFileUploader), the async result cache  *)
(* it is built on (useAsyncMemo) and the export flow of the tools          *)
(* (convertToPng), as React state machines.                                *)
(*                                                                         *)
(* React contract used throughout:                                         *)
(*  - a state setter called with a value that is not Object.is-equal to    *)
(*    the current state schedules a re-render (dirty); with an equal value *)
(*    it bails out;                                                        *)
(*  - a render returns the hook state as it is at that moment; after the   *)
(*    commit the cleanups of the effects whose dependencies changed run,   *)
(*    then the bodies of those effects.  Render, commit and the effects    *)
(*    are one step here: React flushes the pending effects of a render     *)
(*    before it renders again;                                             *)
(*  - effect dependencies are compared element-wise by Object.is, so an    *)
(*    object, array or closure literal written inline in the component     *)
(*    body is a new dependency on every render.                            *)
(* Event loop: the handler of an already resolved promise is a microtask   *)
(* and runs before the next task (an input event, an image load, a         *)
(* scheduled render, a teardown).                                          *)
(***************************************************************************)
EXTENDS Integers, Sequences, FiniteSets, TLC

\* Number of distinct dependency signatures of the host in SpecMemo.
NumSigs == 2
\* Cap on the number of producer invocations in SpecMemo.
MaxMemoCalls == 4
\* Number of distinct File objects the user can supply.
NumFiles == 2
\* Cap on the number of object URLs created in one behaviour.
MaxUrls == 3
\* Cap on the number of convertToPng calls in one behaviour.
MaxExports == 2
\* Longest source file name in SpecName, in characters.
MaxNameLen == 5

\* null: "no file" for imageBlob, "no URL" for imageBlobUrl.
Null == 0
\* imageMetadata: null is the empty tuple, an object is a one-element tuple.
NoMetadata == << >>

Files == 1..NumFiles
FileNames == << "a.png", "b.svg", "c.tar.gz", "d", "e.jpeg", "f.webp" >>
\* File.name
FileName(f) == FileNames[f]
\* img.naturalWidth / img.naturalHeight of the decoded file
NaturalWidth(f) == 10 * f
NaturalHeight(f) == 10 * f + 5

VARIABLES
    mounted,    \* the component using useFileUploader is mounted
    imageBlob,  \* useState<File | null>: the source file
    result,     \* useAsyncMemo's useState: {imageBlobUrl, imageMetadata}
    dirty,      \* a state update is waiting for a render
    view,       \* what the last committed render returned
    inflight,   \* producer calls awaiting the decode: {file, url}
    emptyPending, \* producer calls that found no file, promise not yet handled
    urlFile,    \* urlFile[u]: the file object URL u was created for
    revokes,    \* revokes[u]: number of URL.revokeObjectURL(u) calls
    wasActive   \* object URLs that have been the rendered imageBlobUrl

\* useAsyncMemo under a host whose producer may also reject (SpecMemo).
VARIABLES
    hasErrorState, \* the host supplies the errorState argument
    hostDeps,      \* the host state listed in deps: the dependency signature
    memoResult,    \* useAsyncMemo's useState
    memoDirty,     \* a state update is waiting for a render
    reported,      \* the last render: the deps it saw, the value it returned
    memoPending,   \* producer calls whose promise has not settled
    memoCalls      \* number of producer invocations so far

\* The export flow of the SVG tool: SVGToolCore, SaveAsPngButton and
\* useSvgConverter (SpecExport, SpecScale).
VARIABLES
    scale,      \* SVGToolCore's effectiveScale, a fraction << num, den >>
    canvasRef,  \* SaveAsPngButton's canvasRef state at its last render is set
    usedCanvasBlobUrl, \* useSvgConverter's useState: the export whose URL
    usedRendered, \* usedCanvasBlobUrl at the button's last render
    canvasSize, \* width and height of the mounted button's canvas element
    exports     \* the calls of convertToPng so far, in order

\* The download name of the rounded-border tool (SpecName).
VARIABLES
    sourceName,   \* props.imageMetadata.name, a sequence of characters
    linkDownload  \* link.download once saveImage has set it

uploadVars == << mounted, imageBlob, result, dirty, view, inflight,
                 emptyPending, urlFile, revokes, wasActive >>
memoVars == << hasErrorState, hostDeps, memoResult, memoDirty, reported,
               memoPending, memoCalls >>
exportVars == << scale, canvasRef, usedCanvasBlobUrl, usedRendered,
                 canvasSize, exports >>
nameVars == << sourceName, linkDownload >>
toolVars == << exportVars, nameVars >>
vars == << uploadVars, memoVars, toolVars >>

\* The loading value passed to useAsyncMemo.
LoadingState == [imageBlobUrl |-> Null, imageMetadata |-> NoMetadata]

\* Mutant: the producer returns the metadata of a decoded file without its URL.
FactoryValueNoUrl(c) ==
    IF c.file = Null
    THEN [imageBlobUrl |-> Null, imageMetadata |-> NoMetadata]
    ELSE [imageBlobUrl |-> Null,
          imageMetadata |-> << [width  |-> NaturalWidth(c.file),
                                height |-> NaturalHeight(c.file),
                                name   |-> FileName(c.file)] >>]

\* The value the producer's promise resolves with, for the call c.
FactoryValue(c) ==
    IF c.file = Null
    THEN [imageBlobUrl |-> Null, imageMetadata |-> NoMetadata]
    ELSE [imageBlobUrl |-> c.url,
          imageMetadata |-> << [width  |-> NaturalWidth(c.file),
                                height |-> NaturalHeight(c.file),
                                name   |-> FileName(c.file)] >>]

\* The object returned by useFileUploader in a render.
Rendered == [imageBlob     |-> imageBlob,
             imageBlobUrl  |-> result.imageBlobUrl,
             imageMetadata |-> result.imageMetadata]

\* Mutant: the effect revokes the URL of the new render, not the previous one.
CleanupRevokesNext(prevUrl, nextUrl) ==
    IF prevUrl # nextUrl /\ nextUrl # Null THEN {nextUrl} ELSE {}

\* The URLs revoked by the cleanup effect when the rendered imageBlobUrl
\* goes from prevUrl to nextUrl.
CleanupRevoked(prevUrl, nextUrl) ==
    IF prevUrl # nextUrl /\ prevUrl # Null THEN {prevUrl} ELSE {}

\* URL.revokeObjectURL on every URL of the set us.
Revoke(us) ==
    revokes' = [u \in DOMAIN revokes |->
                   IF u \in us THEN revokes[u] + 1 ELSE revokes[u]]

\* State after the initial render and its effects: setResult(loadingState)
\* bails out (it is the initial state), the producer was invoked with no
\* file and its promise is about to resolve.
UploadInit ==
    /\ mounted = TRUE
    /\ imageBlob = Null
    /\ result = LoadingState
    /\ dirty = FALSE
    /\ view = [imageBlob |-> Null, imageBlobUrl |-> Null,
               imageMetadata |-> NoMetadata]
    /\ inflight = {}
    /\ emptyPending = 1
    /\ urlFile = << >>
    /\ revokes = << >>
    /\ wasActive = {}

\* setImageBlob(file)
SetImageBlob(f) ==
    /\ mounted
    /\ emptyPending = 0
    /\ imageBlob' = f
    /\ dirty' = (dirty \/ f # imageBlob)
    /\ UNCHANGED << mounted, result, view, inflight, emptyPending, urlFile,
                    revokes, wasActive >>

\* handleFileUpload: the setter itself, handed to the drop zone.
HandleFileUpload == \E f \in Files : SetImageBlob(f)

\* handleFileUploadEvent: the first file of the input, if there is one.
HandleFileUploadEvent ==
    \E files \in {<< >>} \cup {<< f >> : f \in Files} :
        IF Len(files) > 0
        THEN SetImageBlob(files[1])
        ELSE mounted /\ emptyPending = 0 /\ UNCHANGED vars

\* handleFilePaste, the clipboard bridge's callback.
HandleFilePaste == \E f \in Files : SetImageBlob(f)

\* cancel()
Cancel == SetImageBlob(Null)

\* The producer invoked by useAsyncMemo's effect, for the source file f of
\* the render: with no file it returns at once, with a file it allocates an
\* object URL and awaits the decode.
InvokeFactory(f) ==
    /\ IF f = Null
       THEN /\ emptyPending' = emptyPending + 1
            /\ UNCHANGED << inflight, urlFile >>
       ELSE /\ inflight' = inflight \cup
                   {[file |-> f, url |-> Len(urlFile) + 1]}
            /\ urlFile' = Append(urlFile, f)
            /\ UNCHANGED emptyPending

\* A render of the component and the effects that follow its commit.  The
\* effect of useAsyncMemo runs after every render: its dependencies
\* factory, loadingState, errorState and deps are all created anew by each
\* render of useFileUploader.  loadingState is a new object, so setResult
\* always schedules another render.  A render with a source file is
\* possible while fewer than MaxUrls object URLs have been created.
Render ==
    /\ mounted
    /\ dirty
    /\ emptyPending = 0
    /\ imageBlob # Null => Len(urlFile) < MaxUrls
    /\ view' = Rendered
    /\ wasActive' = wasActive \cup ({result.imageBlobUrl} \ {Null})
    \* useAsyncMemo's effect: setResult(loadingState), then factory()
    /\ result' = LoadingState
    /\ dirty' = TRUE
    /\ InvokeFactory(imageBlob)
    \* the URL effect: the cleanup of the previous render's effect
    /\ LET us == CleanupRevoked(view.imageBlobUrl, result.imageBlobUrl)
       IN  revokes' = [u \in 1..Len(urlFile') |->
                          IF u > Len(urlFile) THEN 0
                          ELSE IF u \in us THEN revokes[u] + 1
                          ELSE revokes[u]]
    /\ UNCHANGED << mounted, imageBlob >>

\* The handler of a resolved producer promise: setResult(value), value being
\* the object the producer has just built (never the current state, so a
\* render is scheduled).  On an unmounted component the setter does nothing.
SetResult(value) ==
    /\ IF mounted
       THEN result' = value /\ dirty' = TRUE
       ELSE UNCHANGED << result, dirty >>
    /\ UNCHANGED << mounted, imageBlob, view, urlFile, revokes, wasActive >>

\* The producer found no file and returned {null, null}.
EmptyResolved ==
    /\ emptyPending > 0
    /\ emptyPending' = emptyPending - 1
    /\ SetResult(FactoryValue([file |-> Null, url |-> Null]))
    /\ UNCHANGED inflight

\* img.onload fired: getImageDimensions resolved and the producer returned.
DecodeComplete ==
    \E c \in inflight :
        /\ emptyPending = 0
        /\ inflight' = inflight \ {c}
        /\ SetResult(FactoryValue(c))
        /\ UNCHANGED emptyPending

\* The component is torn down: the cleanup of the URL effect runs.
Unmount ==
    /\ mounted
    /\ emptyPending = 0
    /\ mounted' = FALSE
    /\ Revoke(CleanupRevoked(view.imageBlobUrl, Null))
    /\ UNCHANGED << imageBlob, result, dirty, view, inflight, emptyPending,
                    urlFile, wasActive >>

(***************************************************************************)
(* The export flow of the SVG tool.  SVGToolCore holds the scale and shows *)
(* SaveAsPngButton while the Upload Session reports metadata; the button   *)
(* owns the hidden canvas and useSvgConverter's state.  The rounded-border *)
(* tool has the same convertToPng, saveImage and cleanup effect, with the  *)
(* metadata's own width and height in place of the scaled ones.            *)
(***************************************************************************)

\* The scale factors: two of the selector's options and a custom value,
\* each a fraction << numerator, denominator >>.
Scales == {<< 1, 1 >>, << 2, 1 >>, << 3, 2 >>}

\* n * scale, as a fraction.
Times(n, s) == << n * s[1], s[2] >>

\* width and height of useSvgConverter.
ScaledSize(metadata, s) ==
    << Times(metadata.width, s), Times(metadata.height, s) >>

\* The canvas element's width or height for the attribute value q: the
\* attribute is parsed as a non-negative integer, which takes the digits
\* before the decimal point.
CanvasAttr(q) == q[1] \div q[2]

\* The size of the canvas rendered with canvasProps.
CanvasSize(imageMetadata, s) ==
    IF imageMetadata = NoMetadata
    THEN << 0, 0 >>
    ELSE << CanvasAttr(ScaledSize(imageMetadata[1], s)[1]),
            CanvasAttr(ScaledSize(imageMetadata[1], s)[2]) >>

\* SVGToolCore renders SaveAsPngButton only with metadata.
ButtonShown(v) == v.imageMetadata # NoMetadata

ButtonMounted == mounted /\ ButtonShown(view)

\* No tool is showing a file: the state SVGToolCore mounts in.
ExportInit ==
    /\ scale = << 1, 1 >>
    /\ canvasRef = FALSE
    /\ usedCanvasBlobUrl = Null
    /\ usedRendered = Null
    /\ canvasSize = << 0, 0 >>
    /\ exports = << >>

\* The canvas has not been drawn on by an export.
NoDraw == << >>

\* props.canvas?.getContext("2d") is not null: there is a canvas and the
\* browser hands out a 2d context for it.
HasContextUnchecked(canvas, context) == TRUE

HasContext(canvas, context) == canvas /\ context

\* The closure of one convertToPng call: the props of the button's last
\* render, what getContext returned, and what the call has done so far.
\* The async function's promise is settled when the call returns: rejected
\* by the throw, fulfilled once img.src is set.
NewExport(context) ==
    [ src       |-> view.imageBlobUrl,
      metadata  |-> view.imageMetadata[1],
      scale     |-> scale,
      hasCanvas |-> canvasRef,
      context   |-> context,
      canvas    |-> canvasSize,
      owner     |-> TRUE,
      stage     |-> IF HasContext(canvasRef, context) THEN "loading"
                    ELSE "noContext",
      promise   |-> IF HasContext(canvasRef, context) THEN "fulfilled"
                    ELSE "rejected",
      drawn     |-> NoDraw,
      encoded   |-> FALSE,
      url       |-> FALSE,
      clicked   |-> FALSE,
      revokes   |-> 0 ]

\* URL.revokeObjectURL of the URL created by export j; j = Null: no call.
RevokedExport(ex, j) ==
    [i \in DOMAIN ex |->
        IF i = j THEN [ex[i] EXCEPT !.revokes = @ + 1] ELSE ex[i]]

\* The mounted button's canvas element takes the size of canvasProps.
Resized(ex, size) ==
    [i \in DOMAIN ex |->
        IF ex[i].owner THEN [ex[i] EXCEPT !.canvas = size] ELSE ex[i]]

\* The button is unmounted: its state setters do nothing from now on and
\* its canvas element keeps its last size.
Orphaned(ex) == [i \in DOMAIN ex |-> [ex[i] EXCEPT !.owner = FALSE]]

\* The export whose URL the cleanup of the usedCanvasBlobUrl effect revokes
\* when the button renders with next after prev.
UsedCleanup(prev, next) == IF prev # next THEN prev ELSE Null

\* The commit of SaveAsPngButton: was, now say whether the button was and
\* is part of the tree, size is the canvas size of the new render.
CommitButton(was, now, size) ==
    IF was /\ now
    THEN /\ canvasRef' = TRUE
         /\ usedRendered' = usedCanvasBlobUrl
         /\ canvasSize' = size
         /\ exports' = Resized(RevokedExport(exports,
                           UsedCleanup(usedRendered, usedCanvasBlobUrl)),
                           size)
         /\ UNCHANGED usedCanvasBlobUrl
    ELSE IF was
    THEN /\ canvasRef' = FALSE
         /\ usedCanvasBlobUrl' = Null
         /\ usedRendered' = Null
         /\ canvasSize' = << 0, 0 >>
         /\ exports' = Orphaned(RevokedExport(exports, usedRendered))
    ELSE IF now
    THEN /\ canvasRef' = FALSE
         /\ usedCanvasBlobUrl' = Null
         /\ usedRendered' = Null
         /\ canvasSize' = size
         /\ UNCHANGED exports
    ELSE UNCHANGED << canvasRef, usedCanvasBlobUrl, usedRendered,
                      canvasSize, exports >>

\* A render of the tool: useFileUploader's render and, in the same commit,
\* SVGToolCore and the button below it.
RenderTool ==
    /\ Render
    /\ CommitButton(ButtonMounted, ButtonShown(view'),
                    CanvasSize(view'.imageMetadata, scale))
    /\ UNCHANGED scale

\* The tool is torn down.
UnmountTool ==
    /\ Unmount
    /\ CommitButton(ButtonMounted, FALSE, << 0, 0 >>)
    /\ UNCHANGED scale

\* SaveAsPngButton renders again after a state update of its own:
\* setCanvasRef from the ref callback, or setUsedCanvasBlobUrl.
ButtonRender ==
    /\ ButtonMounted
    /\ emptyPending = 0
    /\ ~canvasRef \/ usedCanvasBlobUrl # usedRendered
    /\ CommitButton(TRUE, TRUE, canvasSize)
    /\ UNCHANGED << scale, uploadVars >>

\* The scale selector's onChange: setScale or setCustomScale, and the
\* render of SVGToolCore that follows.
SetScale ==
    \E s \in Scales \ {scale} :
        /\ mounted
        /\ emptyPending = 0
        /\ scale' = s
        /\ CommitButton(ButtonMounted, ButtonMounted,
                        CanvasSize(view.imageMetadata, s))
        /\ UNCHANGED uploadVars

\* The button's onClick: convertToPng().  Without a context it throws;
\* otherwise it sets img.src and returns.
ConvertToPng ==
    \E context \in BOOLEAN :
        /\ ButtonMounted
        /\ emptyPending = 0
        /\ Len(exports) < MaxExports
        /\ exports' = Append(exports, NewExport(context))
        /\ UNCHANGED << scale, canvasRef, usedCanvasBlobUrl, usedRendered,
                        canvasSize, uploadVars >>

\* img.onload of export i: clearRect, drawImage with the width and height
\* of the call's render, then saveImage up to its await of toBlob.
ImageLoaded ==
    \E i \in DOMAIN exports :
        /\ emptyPending = 0
        /\ exports[i].stage = "loading"
        /\ exports[i].src # Null
        /\ LET e == exports[i]
           IN  exports' = [exports EXCEPT ![i] =
                   [e EXCEPT !.drawn = << [canvas |-> e.canvas,
                                           rect |-> ScaledSize(e.metadata,
                                                               e.scale)] >>,
                             !.stage = IF e.hasCanvas THEN "encoding"
                                       ELSE "encodeError"]]
        /\ UNCHANGED << scale, canvasRef, usedCanvasBlobUrl, usedRendered,
                        canvasSize, uploadVars >>

\* The test of toBlob's callback on what it was handed.
GotBlobAlways(blob) == TRUE

GotBlob(blob) == blob

\* toBlob's callback of export i and the rest of saveImage: with a blob,
\* createObjectURL, setUsedCanvasBlobUrl, link.click(); without, the
\* promise saveImage awaits rejects and nobody handles it.
ToBlobCallback ==
    \E i \in DOMAIN exports, blob \in BOOLEAN :
        /\ emptyPending = 0
        /\ exports[i].stage = "encoding"
        /\ IF GotBlob(blob)
           THEN /\ exports' = [exports EXCEPT ![i] =
                       [@ EXCEPT !.stage = "saved", !.encoded = blob,
                                 !.url = TRUE, !.clicked = TRUE]]
                /\ usedCanvasBlobUrl' =
                       IF exports[i].owner THEN i ELSE usedCanvasBlobUrl
           ELSE /\ exports' = [exports EXCEPT ![i].stage = "encodeError"]
                /\ UNCHANGED usedCanvasBlobUrl
        /\ UNCHANGED << scale, canvasRef, usedRendered, canvasSize,
                        uploadVars >>

(***************************************************************************)
(* The download name of the rounded-border tool.                           *)
(***************************************************************************)

\* The characters of a file name: two letters and the dot.
Chars == {"a", "b", "."}

Names == UNION {[1..n -> Chars] : n \in 0..MaxNameLen}

\* Where /\..+$/ matches: at the first dot that has a character after it
\* (0: no match).
MatchStart(name) ==
    LET dots == {i \in 1..(Len(name) - 1) : name[i] = "."}
    IN  IF dots = {} THEN 0
        ELSE CHOOSE i \in dots : \A j \in dots : i <= j

\* imageFileName.replace(/\..+$/, "")
StripExtension(name) ==
    IF MatchStart(name) = 0 THEN name
    ELSE SubSeq(name, 1, MatchStart(name) - 1)

\* `${...}.png`
DownloadName(name) == StripExtension(name) \o << ".", "p", "n", "g" >>

\* No export has named a link.
NameIdle ==
    /\ sourceName = << >>
    /\ linkDownload = << >>

\* saveImage of the rounded-border tool sets link.download.
SaveImageName ==
    /\ linkDownload = << >>
    /\ linkDownload' = DownloadName(sourceName)
    /\ UNCHANGED sourceName

(***************************************************************************)
(* useAsyncMemo on its own.  The host passes its arguments the way         *)
(* useFileUploader does: factory, loadingState and deps are written inline *)
(* in the component body, so each render hands the effect new              *)
(* dependencies.  Unlike useFileUploader's producer, the host's producer   *)
(* may reject, and the host may supply errorState.                         *)
(***************************************************************************)
Sigs == 1..NumSigs

\* The loadingState object created by the render that issued call k.
Loading(k) == [kind |-> "loading", sig |-> 0, gen |-> k]
\* The value the producer resolves with when invoked for signature s.
Value(s) == [kind |-> "value", sig |-> s, gen |-> 0]
\* errorState(error), for the error of a call invoked for signature s.
ErrorValue(s) == [kind |-> "error", sig |-> s, gen |-> 0]

\* errorState as the effect of call c sees it: the supplied function, or
\* defaultErrorState, which returns that render's loadingState.
ErrorState(c) == IF hasErrorState THEN ErrorValue(c.sig) ELSE Loading(c.id)

\* setResult(v): re-render unless v is the current state (Object.is).
SetMemoResult(v) ==
    /\ memoResult' = v
    /\ memoDirty' = (memoDirty \/ v # memoResult)

\* State after the first render and its effect: setResult(loadingState)
\* bailed out, the producer is running for the initial signature.
MemoInit ==
    /\ hasErrorState \in BOOLEAN
    /\ hostDeps \in Sigs
    /\ memoResult = Loading(1)
    /\ memoDirty = FALSE
    /\ reported = [deps |-> hostDeps, value |-> Loading(1)]
    /\ \E r \in BOOLEAN :
          memoPending = {[id |-> 1, sig |-> hostDeps, rejects |-> r]}
    /\ memoCalls = 1

\* The host changes the state that deps lists.
HostSetDeps ==
    \E s \in Sigs :
        /\ hostDeps' = s
        /\ memoDirty' = (memoDirty \/ s # hostDeps)
        /\ UNCHANGED << hasErrorState, memoResult, reported, memoPending,
                        memoCalls >>

\* A render of the host and useAsyncMemo's effect after its commit:
\* setResult(loadingState), then factory(), whose promise will resolve or
\* reject.
MemoRender ==
    /\ memoDirty
    /\ memoCalls < MaxMemoCalls
    /\ reported' = [deps |-> hostDeps, value |-> memoResult]
    /\ memoResult' = Loading(memoCalls + 1)
    /\ memoDirty' = TRUE
    /\ memoCalls' = memoCalls + 1
    /\ \E r \in BOOLEAN :
          memoPending' = memoPending \cup
              {[id |-> memoCalls + 1, sig |-> hostDeps, rejects |-> r]}
    /\ UNCHANGED << hasErrorState, hostDeps >>

\* The producer's promise resolves: setResult(value).
MemoResolve ==
    \E c \in memoPending :
        /\ ~c.rejects
        /\ memoPending' = memoPending \ {c}
        /\ SetMemoResult(Value(c.sig))
        /\ UNCHANGED << hasErrorState, hostDeps, reported, memoCalls >>

\* The producer's promise rejects: setResult(errorState(error)).
MemoReject ==
    \E c \in memoPending :
        /\ c.rejects
        /\ memoPending' = memoPending \ {c}
        /\ SetMemoResult(ErrorState(c))
        /\ UNCHANGED << hasErrorState, hostDeps, reported, memoCalls >>

\* The host of SpecMemo before anything has happened to it.
MemoIdle ==
    /\ hasErrorState = FALSE
    /\ hostDeps = 1
    /\ memoResult = Loading(1)
    /\ memoDirty = FALSE
    /\ reported = [deps |-> 1, value |-> Loading(1)]
    /\ memoPending = {}
    /\ memoCalls = 1

\* The Upload Session: useFileUploader mounted in a tool.  The variables of
\* the other specifications are not part of it and keep their initial value.
Init == UploadInit /\ MemoIdle /\ ExportInit /\ NameIdle

Next ==
    \/ HandleFileUpload /\ UNCHANGED << memoVars, toolVars >>
    \/ HandleFileUploadEvent /\ UNCHANGED << memoVars, toolVars >>
    \/ HandleFilePaste /\ UNCHANGED << memoVars, toolVars >>
    \/ Cancel /\ UNCHANGED << memoVars, toolVars >>
    \/ Render /\ UNCHANGED << memoVars, toolVars >>
    \/ EmptyResolved /\ UNCHANGED << memoVars, toolVars >>
    \/ DecodeComplete /\ UNCHANGED << memoVars, toolVars >>
    \/ Unmount /\ UNCHANGED << memoVars, toolVars >>

Spec == Init /\ [][Next]_vars

\* useAsyncMemo under the rejecting host; the Upload Session's variables
\* keep their initial value.
InitMemo == UploadInit /\ MemoInit /\ ExportInit /\ NameIdle

NextMemo ==
    \/ HostSetDeps /\ UNCHANGED << uploadVars, toolVars >>
    \/ MemoRender /\ UNCHANGED << uploadVars, toolVars >>
    \/ MemoResolve /\ UNCHANGED << uploadVars, toolVars >>
    \/ MemoReject /\ UNCHANGED << uploadVars, toolVars >>

SpecMemo == InitMemo /\ [][NextMemo]_vars

\* The SVG tool: the Upload Session with the export flow, at scale 1.
InitExport == UploadInit /\ MemoIdle /\ ExportInit /\ NameIdle

NextExport ==
    \/ HandleFileUpload /\ UNCHANGED << memoVars, toolVars >>
    \/ HandleFileUploadEvent /\ UNCHANGED << memoVars, toolVars >>
    \/ HandleFilePaste /\ UNCHANGED << memoVars, toolVars >>
    \/ Cancel /\ UNCHANGED << memoVars, toolVars >>
    \/ EmptyResolved /\ UNCHANGED << memoVars, toolVars >>
    \/ DecodeComplete /\ UNCHANGED << memoVars, toolVars >>
    \/ RenderTool /\ UNCHANGED << memoVars, nameVars >>
    \/ UnmountTool /\ UNCHANGED << memoVars, nameVars >>
    \/ ButtonRender /\ UNCHANGED << memoVars, nameVars >>
    \/ ConvertToPng /\ UNCHANGED << memoVars, nameVars >>
    \/ ImageLoaded /\ UNCHANGED << memoVars, nameVars >>
    \/ ToBlobCallback /\ UNCHANGED << memoVars, nameVars >>

SpecExport == InitExport /\ [][NextExport]_vars

\* The Upload Session as it is when the tool first shows file f: the second
\* render after the upload, with the next producer call already issued.
Showing(f) ==
    /\ mounted = TRUE
    /\ imageBlob = f
    /\ result = LoadingState
    /\ dirty = TRUE
    /\ view = [imageBlob |-> f, imageBlobUrl |-> 1,
               imageMetadata |->
                   FactoryValue([file |-> f, url |-> 1]).imageMetadata]
    /\ inflight = {[file |-> f, url |-> 2]}
    /\ emptyPending = 0
    /\ urlFile = << f, f >>
    /\ revokes = << 0, 0 >>
    /\ wasActive = {1}

\* The SVG tool showing a file, under changes of the scale: the Upload
\* Session takes no step.
InitScale ==
    \E f \in Files, s \in Scales :
        /\ Showing(f)
        /\ MemoIdle
        /\ NameIdle
        /\ scale = s
        /\ canvasRef = FALSE
        /\ usedCanvasBlobUrl = Null
        /\ usedRendered = Null
        /\ canvasSize = CanvasSize(view.imageMetadata, s)
        /\ exports = << >>

NextScale ==
    \/ SetScale /\ UNCHANGED << memoVars, nameVars >>
    \/ ButtonRender /\ UNCHANGED << memoVars, nameVars >>
    \/ ConvertToPng /\ UNCHANGED << memoVars, nameVars >>
    \/ ImageLoaded /\ UNCHANGED << memoVars, nameVars >>
    \/ ToBlobCallback /\ UNCHANGED << memoVars, nameVars >>

SpecScale == InitScale /\ [][NextScale]_vars

\* The rounded-border tool's download name for every source name.
InitName ==
    /\ UploadInit
    /\ MemoIdle
    /\ ExportInit
    /\ sourceName \in Names
    /\ linkDownload = << >>

NextName ==
    \/ SaveImageName /\ UNCHANGED << uploadVars, memoVars, exportVars >>

SpecName == InitName /\ [][NextName]_vars

(***************************************************************************)
(* Claims about the Upload Session, checked under Spec.                    *)
(***************************************************************************)

\* The file a committed result was derived from (Null for no result).
SourceOf(r) == IF r.imageBlobUrl = Null THEN Null ELSE urlFile[r.imageBlobUrl]

\* C1: after a sequence of replace(file) calls, once the last file has been
\* rendered (so its derivation was issued) and every decode has completed,
\* the committed imageMetadata and imageBlobUrl are those derived from the
\* last file, whatever the order of the decode completions.
C1_LastFileCommitted ==
    ( /\ mounted
      /\ imageBlob # Null
      /\ view.imageBlob = imageBlob
      /\ inflight = {}
      /\ result.imageMetadata # NoMetadata )
    => /\ SourceOf(result) = imageBlob
       /\ result.imageMetadata[1].name = FileName(imageBlob)

\* C2: a producer promise that resolves after the dependency signature (the
\* source file the hook was last rendered with) has changed since the call
\* was issued does not mutate the reported value.
C2_StaleResolveDiscarded ==
    [][\A c \in inflight :
          (inflight' = inflight \ {c} /\ c.file # view.imageBlob)
              => result' = result]_vars

\* C3: in every state the Upload Session exposes, imageMetadata and
\* imageBlobUrl, when present, are derived from the exposed source file:
\* the name is that file's, the URL was allocated for it, and neither is
\* present while the source file is absent.
C3_DerivedFromCurrentSource ==
    /\ view.imageMetadata # NoMetadata =>
          /\ view.imageBlob # Null
          /\ view.imageMetadata[1].name = FileName(view.imageBlob)
    /\ view.imageBlobUrl # Null =>
          /\ view.imageBlob # Null
          /\ urlFile[view.imageBlobUrl] = view.imageBlob

\* C4: imageBlobUrl and imageMetadata are both present or both absent, in
\* the cache's state and in everything a render returns.
C4_UrlAndMetadataTogether ==
    /\ (view.imageBlobUrl = Null) <=> (view.imageMetadata = NoMetadata)
    /\ (result.imageBlobUrl = Null) <=> (result.imageMetadata = NoMetadata)

\* C4 witness: a decode completed and a render exposed both the URL and the
\* metadata of a file.
C4_Witness ==
    /\ view.imageBlobUrl # Null
    /\ view.imageMetadata # NoMetadata
    /\ view.imageBlob # Null

\* C5: once the session has been cancelled and has settled with metadata and
\* URL absent, they stay absent as long as there is no further input, also
\* when a decode issued before the cancel completes afterwards.
C5_CancelStaysAbsent ==
    [][( /\ imageBlob = Null
         /\ view.imageBlob = Null
         /\ view.imageMetadata = NoMetadata
         /\ view.imageBlobUrl = Null
         /\ imageBlob' = Null )
       => (view'.imageMetadata = NoMetadata /\ view'.imageBlobUrl = Null)]_vars

\* C6: every object URL that has been the rendered imageBlobUrl is revoked
\* exactly once, and only after it stopped being the rendered one: zero
\* times while it is exposed, once from the moment a render replaced it or
\* the component was torn down.
C6_ReleasedOnceAfterActive ==
    \A u \in wasActive :
        IF mounted /\ u = view.imageBlobUrl
        THEN revokes[u] = 0
        ELSE revokes[u] = 1

\* C6 witness: a URL was exposed, a later render replaced it and it has been
\* revoked, while the component is still mounted.
C6_Witness ==
    \E u \in wasActive :
        mounted /\ u # view.imageBlobUrl /\ revokes[u] = 1

\* C7: the render that sees a new dependency signature (source file) reports
\* the loading value, never the result computed for the previous signature.
C7_LoadingOnSignatureChange ==
    [][view'.imageBlob # view.imageBlob
          => (view'.imageBlobUrl = Null /\ view'.imageMetadata = NoMetadata)]_vars

\* Object URLs created for the file f and not yet revoked.
LiveHandles(f) == {u \in DOMAIN urlFile : urlFile[u] = f /\ revokes[u] = 0}

\* C10: for each source file at most one object URL allocated for it is
\* live (created and not yet revoked) at any moment.
C10_OneLiveHandlePerFile ==
    \A f \in Files : Cardinality(LiveHandles(f)) <= 1


\* The session is pending for its source file: the file has been rendered
\* and neither the cache nor the last render holds a URL or metadata.
PendingFor(f) ==
    /\ f # Null
    /\ imageBlob = f
    /\ view.imageBlob = f
    /\ result = LoadingState
    /\ view.imageBlobUrl = Null
    /\ view.imageMetadata = NoMetadata

\* C15: while the session is pending for a source file whose decode does not
\* complete, imageMetadata and imageBlobUrl stay absent: a step that neither
\* replaces or cancels the source nor completes a decode of that file leaves
\* the session pending.
C15_StalledDecodeStaysPending ==
    [][\A f \in Files :
          ( /\ PendingFor(f)
            /\ imageBlob' = f
            /\ \A c \in inflight : c.file = f => c \in inflight' )
          => /\ result'.imageMetadata = NoMetadata
             /\ result'.imageBlobUrl = Null
             /\ view'.imageMetadata = NoMetadata
             /\ view'.imageBlobUrl = Null]_vars

\* Object URLs whose decode is still awaited.
AwaitedUrls == {c.url : c \in inflight}

\* C18: in the mounted session a handle whose decode has completed and
\* which is not the active handle, nor about to become it, has been
\* released: no handle is left allocated with nothing that can still release
\* it.
C18_CompletedHandleReleased ==
    \A u \in DOMAIN urlFile :
        ( /\ mounted
          /\ u \notin AwaitedUrls
          /\ u # result.imageBlobUrl
          /\ u # view.imageBlobUrl )
        => revokes[u] >= 1

\* C19: the producer is invoked once per change of the source file: only a
\* render that sees another source file than the previous render invokes it,
\* not a re-render and not the render its own completion causes.
C19_ProducerOncePerChange ==
    [][(urlFile' # urlFile \/ emptyPending' > emptyPending)
          => view'.imageBlob # view.imageBlob]_vars

(***************************************************************************)
(* Claims about the export flow (SpecExport, SpecScale, SpecName).         *)
(***************************************************************************)

\* C11: an export clicks the download link only after its image has
\* loaded and been drawn and the canvas has been encoded into a blob; an
\* export without a context, one whose image has not loaded and one whose
\* encoding gave no blob has clicked nothing and created no URL.
C11_DownloadOnlyAfterEncode ==
    \A i \in DOMAIN exports :
        /\ exports[i].clicked =>
              /\ exports[i].hasCanvas /\ exports[i].context
              /\ exports[i].drawn # NoDraw
              /\ exports[i].encoded
              /\ exports[i].url
        /\ exports[i].stage # "saved" =>
              /\ ~exports[i].clicked
              /\ ~exports[i].url
              /\ exports[i].revokes = 0

\* One export has downloaded and another has failed to encode.
C11_Witness ==
    \E i, j \in DOMAIN exports :
        /\ exports[i].clicked
        /\ exports[j].stage = "encodeError"

\* C12: convertToPng without a drawable surface (no canvas, or getContext
\* returned null) fails before the image load is started: its promise is
\* rejected, it never draws and never creates a URL, and the call leaves
\* the stored export URL as it was.
C12_NoSurfaceFailsEarly ==
    [][/\ \A i \in DOMAIN exports' :
              ~(exports'[i].hasCanvas /\ exports'[i].context) =>
                  /\ exports'[i].stage = "noContext"
                  /\ exports'[i].promise = "rejected"
                  /\ exports'[i].drawn = NoDraw
                  /\ ~exports'[i].url
       /\ ( /\ Len(exports') > Len(exports)
            /\ ~( /\ exports'[Len(exports')].hasCanvas
                  /\ exports'[Len(exports')].context ) )
          => /\ usedCanvasBlobUrl' = usedCanvasBlobUrl
             /\ usedRendered' = usedRendered]_vars

\* convertToPng has been called once with no canvas and once with a canvas
\* that gave no context.
C12_Witness ==
    \E i, j \in DOMAIN exports :
        /\ ~exports[i].hasCanvas
        /\ exports[i].stage = "noContext"
        /\ exports[j].hasCanvas /\ ~exports[j].context
        /\ exports[j].stage = "noContext"

\* C13: when toBlob yields no blob, the promise convertToPng returned is
\* rejected.
C13_EncodeErrorRejects ==
    \A i \in DOMAIN exports :
        exports[i].stage = "encodeError" => exports[i].promise = "rejected"

\* round(q) for a fraction q, halves upwards.
Round(q) == (2 * q[1] + q[2]) \div (2 * q[2])

\* C14: when an export draws, the canvas is round(w*s) by round(h*s) for
\* the metadata and the scale of the export's request, and the rectangle
\* drawn is exactly the canvas.
C14_CanvasIsRoundedScaledSize ==
    \A i \in DOMAIN exports :
        exports[i].drawn # NoDraw =>
            LET d == exports[i].drawn[1]
                size == ScaledSize(exports[i].metadata, exports[i].scale)
            IN  /\ d.canvas = << Round(size[1]), Round(size[2]) >>
                /\ d.rect[1][1] = d.canvas[1] * d.rect[1][2]
                /\ d.rect[2][1] = d.canvas[2] * d.rect[2][2]

\* C16: a URL created by an export is revoked at most once, only after
\* the link was clicked, and once it is neither the stored export URL nor
\* the one the pending cleanup holds it has been revoked.
C16_ExportUrlRevokedOnce ==
    \A i \in DOMAIN exports :
        exports[i].url =>
            /\ exports[i].revokes <= 1
            /\ exports[i].revokes >= 1 => exports[i].clicked
            /\ (i # usedCanvasBlobUrl /\ i # usedRendered) =>
                  exports[i].revokes = 1

\* C20: while an export's image load from imageBlobUrl h is in flight, h
\* has not been revoked.
C20_SourceNotRevokedWhileLoading ==
    \A i \in DOMAIN exports :
        (exports[i].stage = "loading" /\ exports[i].src # Null) =>
            revokes[exports[i].src] = 0

\* The name the claim states: the source name up to its last dot, or all of
\* it when it has no dot, followed by .png.
LastDot(name) ==
    LET dots == {i \in 1..Len(name) : name[i] = "."}
    IN  IF dots = {} THEN 0
        ELSE CHOOSE i \in dots : \A j \in dots : j <= i

\* C17: the download name is the source name with the part from its last
\* dot on replaced by .png, or with .png appended when it has no dot.
C17_LastExtensionReplaced ==
    linkDownload # << >> =>
        linkDownload =
            (IF LastDot(sourceName) = 0 THEN sourceName
             ELSE SubSeq(sourceName, 1, LastDot(sourceName) - 1))
            \o << ".", "p", "n", "g" >>


(***************************************************************************)
(* Claims about useAsyncMemo's handling of rejections, checked under       *)
(* SpecMemo.                                                               *)
(***************************************************************************)

\* Two reported values are the same value (whichever render created them).
SameValue(a, b) == a.kind = b.kind /\ a.sig = b.sig

\* C8: when the producer rejects for the signature of the last render, the
\* hook reports errorState(error) if errorState was supplied and the loading
\* value otherwise; a rejection of a call issued for another signature is
\* discarded and leaves the reported value as it was.
C8_RejectionReported ==
    [][\A c \in memoPending :
          (c.rejects /\ memoPending' = memoPending \ {c}) =>
              IF c.sig = reported.deps
              THEN SameValue(memoResult',
                             IF hasErrorState THEN ErrorValue(c.sig)
                                              ELSE Loading(c.id))
              ELSE SameValue(memoResult', memoResult)]_vars

\* C9: once the producer has rejected for the current signature and the
\* error value is reported, the producer is not invoked again and the value
\* stays as it is until the signature changes.
C9_RejectionTerminal ==
    [][( /\ memoResult.kind = "error"
         /\ memoResult.sig = hostDeps
         /\ reported.deps = hostDeps
         /\ hostDeps' = hostDeps
         /\ \A c \in memoPending : c.sig # hostDeps )
       => (memoCalls' = memoCalls /\ memoResult' = memoResult)]_vars

TypeOK ==
    /\ mounted \in BOOLEAN
    /\ imageBlob \in Files \cup {Null}
    /\ dirty \in BOOLEAN
    /\ emptyPending \in {0, 1}
    /\ Len(urlFile) <= MaxUrls
    /\ Len(revokes) = Len(urlFile)
====
